---- MODULE Spec2Model ----
(***************************************************************************)
(* Model of the Minesweeper auto-solver of minesweeper.py: the board       *)
(* (Minesweeper.restart), the action executor (do), the deterministic      *)
(* inference engine (solve_constraint, solve_pair_of_constraints,          *)
(* solve_variable), the sampling estimator (calc_prob) and the propagation *)
(* driver (solve).                                                         *)
(*                                                                         *)
(* solve is modelled statement by statement: Solve is its entry (the lost  *)
(* test and the initialisation of the three work lists), ApplyAction is    *)
(* one iteration of the inner `while actions` loop, Dispatch is the rest   *)
(* of one iteration of the outer loop (the game_over test and the pop of   *)
(* one solver), CalcProb is the call of calc_prob and the return.          *)
(***************************************************************************)
EXTENDS Integers, Sequences, FiniteSets

\* The board is SIZE_X x SIZE_Y (30 x 16 in the source, scaled down here).
SIZE_X == 3
SIZE_Y == 3
\* N_MINES is 99 in the source; SpecBoard covers every layout of 1 .. MaxMines
\* mines, SpecBlock the layouts of at most MaxBlockMines mines in which a mine
\* has no safe neighbor, Spec the board of the end-to-end scenario.
MaxMines == 2
MaxBlockMines == 4
\* Number of accepted samples calc_prob waits for.
N_SIMS == 2

VARIABLES
    is_mine,            \* Cell.is_mine of every cell, set once by restart
    n_adj_mines,        \* Cell.n_adj_mines of every cell, set once by restart
    n_mines,            \* Minesweeper.n_mines (= N_MINES)
    grid,               \* Cell.state of every cell
    clicked_count,      \* Minesweeper.clicked_count
    n_flags,            \* Minesweeper.n_flags
    lost,               \* Minesweeper.lost
    probs,              \* Minesweeper.probs
    pc,                 \* position in solve: idle, run, calc_prob, hung; new and
                        \* KeyError before and after a failed construction
    actions,            \* solve: the list `actions` (a stack, popped at the end)
    constraint_solvers, \* solve: deque of coordinates for solve_constraint
    variable_solvers,   \* solve: deque of coordinates for solve_variable
    game_over,          \* solve: the local game_over of the current iteration
    starting_action,    \* solve: its argument (of the current or last call)
    last_do,            \* history: the last call of do and what it returned
    hist,               \* history of the current or last call of solve
    mine_list,          \* minesweeper_lib: the argument `mines` of Minesweeper
    hashed              \* data_lib: a second position, and what coord_hash and
                        \* position_hash returned

vars == <<is_mine, n_adj_mines, n_mines, grid, clicked_count, n_flags, lost, probs, pc,
          actions, constraint_solvers, variable_solvers, game_over,
          starting_action, last_do, hist, mine_list, hashed>>

board == <<grid, clicked_count, n_flags, lost>>

\* None, the value of probs for a cell without a probability (probabilities
\* are 0 .. 100)
None == -1

\* enum State
HIDDEN == "HIDDEN"
CLICKED == "CLICKED"
FLAGGED == "FLAGGED"
MISCLICKED == "MISCLICKED"
State == {HIDDEN, CLICKED, FLAGGED, MISCLICKED}

\* enum ActionType (UNKNOWN is never built by the click wrappers)
UNKNOWN == "UNKNOWN"
CLEAR == "CLEAR"
FLAG == "FLAG"
ActionType == {CLEAR, FLAG}

\* class Coord: the valid coordinates, as grid_coords() yields them
Coords == (0 .. SIZE_X - 1) \X (0 .. SIZE_Y - 1)

\* class Action; `by` is a ghost tag naming who built the action
\* (the user, solve_constraint or solve_variable); no code reads it.
Action(t, c, who) == [type |-> t, coord |-> c, by |-> who]

\* ---------------------------------------------------------------- helpers

RECURSIVE SeqToSet(_)
SeqToSet(s) == IF s = <<>> THEN {} ELSE {Head(s)} \cup SeqToSet(Tail(s))

\* itertools.product(range(-1, 2), range(-1, 2)) without (0, 0), in order
Offsets == << <<-1, -1>>, <<-1, 0>>, <<-1, 1>>, <<0, -1>>,
              <<0, 1>>, <<1, -1>>, <<1, 0>>, <<1, 1>> >>

\* get_neighbors(coord), with the bounds filter every Neighbors carries
neighbor_table[coord \in Coords] ==
    LET all == [i \in 1 .. 8 |->
                  <<coord[1] + Offsets[i][1], coord[2] + Offsets[i][2]>>]
    IN SelectSeq(all, LAMBDA n: n \in Coords)

get_neighbors(coord) == neighbor_table[coord]

\* get_neighbors(coord).filter(lambda n: g[n].state == s), as a list
NeighborsIn(g, coord, s) == SelectSeq(get_neighbors(coord), LAMBDA n: g[n] = s)

\* restart: "Count adjacent mines", the n_adj_mines of a cell under layout m
count_adjacent_mines(m, coord) ==
    Len(SelectSeq(get_neighbors(coord), LAMBDA n: m[n]))

\* my_append(queue, element): no append of a duplicate
my_append(queue, element) ==
    IF element \in SeqToSet(queue) THEN queue ELSE Append(queue, element)

RECURSIVE my_append_all(_, _)
my_append_all(queue, elements) ==
    IF elements = <<>> THEN queue
    ELSE my_append_all(my_append(queue, Head(elements)), Tail(elements))

\* ------------------------------------------------------- inference engine

\* Variant of get_variables_constraint that forgets to subtract the FLAGGED
\* neighbors from the shown number
get_variables_constraint_ignoring_flags(g, coord) ==
    [variables |-> NeighborsIn(g, coord, HIDDEN),
     constraint |-> n_adj_mines[coord]]

\* get_variables_constraint(coord): the HIDDEN neighbors (a list) and the
\* shown number minus the FLAGGED neighbors
get_variables_constraint(g, coord) ==
    [variables |-> NeighborsIn(g, coord, HIDDEN),
     constraint |-> n_adj_mines[coord] - Len(NeighborsIn(g, coord, FLAGGED))]

\* [Action(type=t, coord=c) for c in cs]
ActionsFor(t, cs, who) == [i \in 1 .. Len(cs) |-> Action(t, cs[i], who)]

\* Variant of solve_constraint without the rule for a constraint of 0
solve_constraint_flag_only(g, coord) ==
    LET vc == [variables |-> NeighborsIn(g, coord, HIDDEN),
               constraint |-> n_adj_mines[coord]
                              - Len(NeighborsIn(g, coord, FLAGGED))] IN
    IF vc.constraint = Len(vc.variables) /\ vc.constraint # 0
    THEN ActionsFor(FLAG, vc.variables, "constraint")
    ELSE <<>>

\* solve_constraint(coord)
solve_constraint(g, coord) ==
    LET vc == get_variables_constraint(g, coord) IN
    IF vc.constraint = 0 THEN ActionsFor(CLEAR, vc.variables, "constraint")
    ELSE IF vc.constraint = Len(vc.variables)
         THEN ActionsFor(FLAG, vc.variables, "constraint")
         ELSE <<>>

\* All orders in which a set can be enumerated (list(set(...)))
RECURSIVE Orders(_)
Orders(S) ==
    IF S = {} THEN {<<>>}
    ELSE UNION {{<<t>> \o r : r \in Orders(S \ {t})} : t \in S}

\* Variant of valid_hypotheses that tests both lists against the count of x
valid_hypotheses_one_count(vx, cx, vy, cy) ==
    {s \in SUBSET (SeqToSet(vx) \cup SeqToSet(vy)) :
        /\ Cardinality(SeqToSet(vx) \cap s) = cx
        /\ Cardinality(SeqToSet(vy) \cap s) = cx}

\* The hypotheses of solve_pair_of_constraints: the subsets s of v that meet
\* both counts
valid_hypotheses(vx, cx, vy, cy) ==
    {s \in SUBSET (SeqToSet(vx) \cup SeqToSet(vy)) :
        /\ Cardinality(SeqToSet(vx) \cap s) = cx
        /\ Cardinality(SeqToSet(vy) \cap s) = cy}

\* The actions solve_pair_of_constraints appends for one t of v
pair_actions(t, valid) ==
    (IF \A s \in valid : t \in s THEN <<Action(FLAG, t, "variable")>> ELSE <<>>)
    \o (IF ~ \E s \in valid : t \in s THEN <<Action(CLEAR, t, "variable")>> ELSE <<>>)

\* Variant of pair_result that returns after the first t that adds an action
pair_result_first_only(order, valid) ==
    IF order = <<>> THEN <<>> ELSE pair_actions(Head(order), valid)

RECURSIVE pair_result(_, _)
pair_result(order, valid) ==
    IF order = <<>> THEN <<>>
    ELSE pair_actions(Head(order), valid) \o pair_result(Tail(order), valid)

\* solve_pair_of_constraints(x, y): the set of lists it can return. v is
\* list(set(vx) | set(vy)), whose order the language leaves open; a t that adds
\* no action does not matter to the result, so only the order of the others is
\* enumerated.
solve_pair_of_constraints(g, x, y) ==
    LET cx == get_variables_constraint(g, x)
        cy == get_variables_constraint(g, y)
        v == SeqToSet(cx.variables) \cup SeqToSet(cy.variables)
        valid == valid_hypotheses(cx.variables, cx.constraint,
                                  cy.variables, cy.constraint)
        decided == {t \in v : pair_actions(t, valid) # <<>>}
    IN {pair_result(order, valid) : order \in Orders(decided)}

\* Variant of combinations2 that pairs no two consecutive elements
combinations2_skipping_next(s) ==
    LET n == Len(s)
        RECURSIVE from(_, _)
        from(i, j) ==
            IF i >= n THEN <<>>
            ELSE IF j > n THEN from(i + 1, i + 3)
            ELSE <<<<s[i], s[j]>>>> \o from(i, j + 1)
    IN from(1, 3)

\* itertools.combinations(s, 2), in order
combinations2(s) ==
    LET n == Len(s)
        RECURSIVE from(_, _)
        from(i, j) ==
            IF i >= n THEN <<>>
            ELSE IF j > n THEN from(i + 1, i + 2)
            ELSE <<<<s[i], s[j]>>>> \o from(i, j + 1)
    IN from(1, 2)

\* solve_variable(coord): the set of lists it can return
solve_variable(g, coord) ==
    LET constraint_neighbors == NeighborsIn(g, coord, CLICKED)
        pairs == combinations2(constraint_neighbors)
        RECURSIVE results(_)
        results(k) ==
            IF k > Len(pairs) THEN {<<>>}
            ELSE {r \o rest :
                    r \in solve_pair_of_constraints(g, pairs[k][1], pairs[k][2]),
                    rest \in results(k + 1)}
    IN results(1)

\* ------------------------------------------------------------- executor

\* Variant of do in which a FLAG of a non-mine marks the cell MISCLICKED but
\* neither sets lost nor returns True
do_wrong_flag_goes_on(action) ==
    LET same == [grid |-> grid, clicked_count |-> clicked_count,
                 n_flags |-> n_flags, lost |-> lost, ret |-> FALSE,
                 raised |-> FALSE]
        misclick == [same EXCEPT !.grid[action.coord] = MISCLICKED,
                                 !.lost = TRUE, !.ret = TRUE]
    IN IF grid[action.coord] \in {CLICKED, FLAGGED} THEN same
       ELSE IF action.type = CLEAR
            THEN IF is_mine[action.coord] THEN misclick
                 ELSE [same EXCEPT !.grid[action.coord] = CLICKED,
                                   !.clicked_count = clicked_count + 1]
            ELSE IF ~ is_mine[action.coord]
                 THEN [same EXCEPT !.grid[action.coord] = MISCLICKED]
                 ELSE [same EXCEPT !.grid[action.coord] = FLAGGED,
                                   !.n_flags = n_flags + 1]

\* Variant of do without the early return for a CLICKED or FLAGGED cell
do_without_settled_test(action) ==
    LET same == [grid |-> grid, clicked_count |-> clicked_count,
                 n_flags |-> n_flags, lost |-> lost, ret |-> FALSE,
                 raised |-> FALSE]
        misclick == [same EXCEPT !.grid[action.coord] = MISCLICKED,
                                 !.lost = TRUE, !.ret = TRUE]
    IN IF action.type = CLEAR
       THEN IF is_mine[action.coord] THEN misclick
            ELSE [same EXCEPT !.grid[action.coord] = CLICKED,
                              !.clicked_count = clicked_count + 1]
       ELSE IF ~ is_mine[action.coord] THEN misclick
            ELSE [same EXCEPT !.grid[action.coord] = FLAGGED,
                              !.n_flags = n_flags + 1]

\* Variant of do in which a FLAG of a mine does not count the flag
do_flag_uncounted(action) ==
    LET same == [grid |-> grid, clicked_count |-> clicked_count,
                 n_flags |-> n_flags, lost |-> lost, ret |-> FALSE,
                 raised |-> FALSE]
        misclick == [same EXCEPT !.grid[action.coord] = MISCLICKED,
                                 !.lost = TRUE, !.ret = TRUE]
    IN IF grid[action.coord] \in {CLICKED, FLAGGED} THEN same
       ELSE IF action.type = CLEAR
            THEN IF is_mine[action.coord] THEN misclick
                 ELSE [same EXCEPT !.grid[action.coord] = CLICKED,
                                   !.clicked_count = clicked_count + 1]
            ELSE IF ~ is_mine[action.coord] THEN misclick
                 ELSE [same EXCEPT !.grid[action.coord] = FLAGGED]

\* Variant of do in which a FLAG of a FLAGGED cell takes the flag off again
do_flag_toggles(action) ==
    LET same == [grid |-> grid, clicked_count |-> clicked_count,
                 n_flags |-> n_flags, lost |-> lost, ret |-> FALSE,
                 raised |-> FALSE]
        misclick == [same EXCEPT !.grid[action.coord] = MISCLICKED,
                                 !.lost = TRUE, !.ret = TRUE]
    IN IF grid[action.coord] = FLAGGED /\ action.type = FLAG
       THEN [same EXCEPT !.grid[action.coord] = HIDDEN,
                         !.n_flags = n_flags - 1]
       ELSE IF grid[action.coord] \in {CLICKED, FLAGGED} THEN same
       ELSE IF action.type = CLEAR
            THEN IF is_mine[action.coord] THEN misclick
                 ELSE [same EXCEPT !.grid[action.coord] = CLICKED,
                                   !.clicked_count = clicked_count + 1]
            ELSE IF ~ is_mine[action.coord] THEN misclick
                 ELSE [same EXCEPT !.grid[action.coord] = FLAGGED,
                                   !.n_flags = n_flags + 1]

\* Variant of do in which a CLEAR of a non-mine counts the cell but leaves it
\* HIDDEN
do_clear_keeps_hidden(action) ==
    LET same == [grid |-> grid, clicked_count |-> clicked_count,
                 n_flags |-> n_flags, lost |-> lost, ret |-> FALSE,
                 raised |-> FALSE]
        misclick == [same EXCEPT !.grid[action.coord] = MISCLICKED,
                                 !.lost = TRUE, !.ret = TRUE]
    IN IF grid[action.coord] \in {CLICKED, FLAGGED} THEN same
       ELSE IF action.type = CLEAR
            THEN IF is_mine[action.coord] THEN misclick
                 ELSE [same EXCEPT !.clicked_count = clicked_count + 1]
            ELSE IF ~ is_mine[action.coord] THEN misclick
                 ELSE [same EXCEPT !.grid[action.coord] = FLAGGED,
                                   !.n_flags = n_flags + 1]

\* Variant of do whose early return is taken for FLAGGED cells only, so that a
\* CLEAR of a CLICKED cell counts the cell again
do_clear_counts_settled(action) ==
    LET same == [grid |-> grid, clicked_count |-> clicked_count,
                 n_flags |-> n_flags, lost |-> lost, ret |-> FALSE,
                 raised |-> FALSE]
        misclick == [same EXCEPT !.grid[action.coord] = MISCLICKED,
                                 !.lost = TRUE, !.ret = TRUE]
    IN IF grid[action.coord] = FLAGGED THEN same
       ELSE IF action.type = CLEAR
            THEN IF is_mine[action.coord] THEN misclick
                 ELSE [same EXCEPT !.grid[action.coord] = CLICKED,
                                   !.clicked_count = clicked_count + 1]
            ELSE IF grid[action.coord] = CLICKED THEN same
                 ELSE IF ~ is_mine[action.coord] THEN misclick
                 ELSE [same EXCEPT !.grid[action.coord] = FLAGGED,
                                   !.n_flags = n_flags + 1]

\* do(action): the board after the call and the value returned, or raised when
\* it raises NotImplementedError instead of returning
do(action) ==
    LET cell == grid[action.coord]
        same == [grid |-> grid, clicked_count |-> clicked_count,
                 n_flags |-> n_flags, lost |-> lost, ret |-> FALSE,
                 raised |-> FALSE]
        misclick == [same EXCEPT !.grid[action.coord] = MISCLICKED,
                                 !.lost = TRUE, !.ret = TRUE]
    IN IF cell \in {CLICKED, FLAGGED} THEN same
       ELSE IF action.type = CLEAR
            THEN IF is_mine[action.coord] THEN misclick
                 ELSE [same EXCEPT !.grid[action.coord] = CLICKED,
                                   !.clicked_count = clicked_count + 1]
            ELSE IF action.type = FLAG
            THEN IF ~ is_mine[action.coord] THEN misclick
                 ELSE [same EXCEPT !.grid[action.coord] = FLAGGED,
                                   !.n_flags = n_flags + 1]
            ELSE [same EXCEPT !.raised = TRUE]

\* ------------------------------------------------------------- estimator

\* round(100 * p / den) of Python 3: to nearest, ties to even
round_pct(p, den) ==
    LET q == (100 * p) \div den
        r == (100 * p) % den
    IN IF 2 * r < den THEN q
       ELSE IF 2 * r > den THEN q + 1
       ELSE IF q % 2 = 0 THEN q ELSE q + 1

\* calc_prob: all_hidden
all_hidden(g) == {c \in Coords : g[c] = HIDDEN}

\* calc_prob: all_constraints, the (set(v), c) of every CLICKED cell with a
\* HIDDEN neighbor
all_constraints(g) ==
    {[v |-> SeqToSet(get_variables_constraint(g, c).variables),
      c |-> get_variables_constraint(g, c).constraint] :
        c \in {d \in Coords : g[d] = CLICKED
                              /\ NeighborsIn(g, d, HIDDEN) # <<>>}}

\* calc_prob: all_variables
all_variables(g) == UNION {x.v : x \in all_constraints(g)}

\* calc_prob: the draws of random.sample(all_hidden, n_mines - n_flags) that
\* the loop accepts, each cut down to all_variables
accepted_samples(g) ==
    LET hidden == all_hidden(g)
        constraints == all_constraints(g)
        variables == UNION {x.v : x \in constraints}
        accepts(s) ==
            LET mines == s \cap variables
            IN \A x \in constraints : Cardinality(mines \cap x.v) = x.c
    IN {s \cap variables :
          s \in {d \in SUBSET hidden :
                   Cardinality(d) = n_mines - n_flags /\ accepts(d)}}

\* calc_prob: probs after the loop has accepted the draws sample[1], ...,
\* sample[N_SIMS]
calc_prob(g, p, sample) ==
    LET vs == all_variables(g)
        nums == [c \in vs |-> Cardinality({i \in 1 .. N_SIMS : c \in sample[i]})]
    IN [c \in Coords |-> IF c \in vs THEN round_pct(nums[c], N_SIMS) ELSE p[c]]

\* The accepted draws of one call of calc_prob under any random source
any_draws(g) == [1 .. N_SIMS -> accepted_samples(g)]

\* One accepted draw, taken N_SIMS times: what calc_prob gets from a random
\* source that keeps returning the same sample
one_draw(g) ==
    IF accepted_samples(g) = {} THEN {}
    ELSE {[i \in 1 .. N_SIMS |-> CHOOSE m \in accepted_samples(g) : TRUE]}

\* The accepted draws of one call of calc_prob: any N_SIMS of them when the
\* values written to probs are followed, one fixed draw when they are not
draws(followed, g) == IF followed THEN any_draws(g) ELSE one_draw(g)

\* --------------------------------------------------- the state machine

\* Placeholders of the history variables before the first call
NoAction == Action(UNKNOWN, <<0, 0>>, "none")
NoDo == [action |-> NoAction, prev |-> HIDDEN, ret |-> FALSE]
NoKeys == [other |-> <<>>, coord |-> <<>>, key |-> <<>>, other_key |-> <<>>]
NoHist == [first |-> FALSE, repeat |-> FALSE, zero |-> FALSE, won |-> FALSE,
           changed |-> FALSE, calc |-> "none", ignored |-> "none"]

\* Number of cells with is_mine set
MineCount(m) == Cardinality({c \in Coords : m[c]})

\* Minesweeper.restart with the mines at the cells of layout m (random.sample
\* picks them): every cell is HIDDEN, the counters are 0 and no cell has a
\* probability
restart(m) ==
    /\ is_mine = m
    /\ n_mines = MineCount(m)
    /\ n_adj_mines = [c \in Coords |-> count_adjacent_mines(m, c)]
    /\ grid = [c \in Coords |-> HIDDEN]
    /\ clicked_count = 0
    /\ n_flags = 0
    /\ lost = FALSE
    /\ probs = [c \in Coords |-> None]
    /\ pc = "idle"
    /\ actions = <<>>
    /\ constraint_solvers = <<>>
    /\ variable_solvers = <<>>
    /\ game_over = FALSE
    /\ starting_action = NoAction
    /\ last_do = NoDo
    /\ hist = NoHist
    /\ mine_list = <<>>
    /\ hashed = NoKeys

\* The layouts with lo .. hi mines
Layouts(lo, hi) == {m \in [Coords -> BOOLEAN] : MineCount(m) \in lo .. hi}

\* The board of the end-to-end scenario: one mine, in the last corner
EndToEndLayout == [c \in Coords |-> c = <<SIZE_X - 1, SIZE_Y - 1>>]

\* The layouts in which some mine has no neighbor that is not a mine
BlockLayouts ==
    {m \in Layouts(1, MaxBlockMines) :
        \E c \in Coords : m[c] /\ \A i \in 1 .. Len(get_neighbors(c)) :
                                      m[get_neighbors(c)[i]]}

\* The board Spec starts from
Init == restart(EndToEndLayout)

\* The boards SpecBoard starts from
InitBoard == \E m \in Layouts(1, MaxMines) : restart(m)

\* The boards SpecBlock starts from
InitBlock == \E m \in BlockLayouts : restart(m)

\* The win condition of solve: clicked_count == SIZE_X * SIZE_Y - N_MINES
Won == clicked_count = SIZE_X * SIZE_Y - n_mines

\* History: a is a CLEAR of a HIDDEN cell that is no mine and has no mine
\* around it
ZeroClear(a) ==
    /\ a.type = CLEAR
    /\ grid[a.coord] = HIDDEN
    /\ ~ is_mine[a.coord]
    /\ n_adj_mines[a.coord] = 0

\* Variant of Solve without the test of lost at the entry of solve
Solve_without_lost_test(a) ==
    /\ pc = "idle"
    /\ pc' = "run"
    /\ actions' = <<a>>
    /\ starting_action' = a
    /\ last_do' = NoDo
    /\ hist' = [first |-> (grid = [c \in Coords |-> HIDDEN]),
                repeat |-> (a = starting_action /\ hist.calc = "done"),
                zero |-> ZeroClear(a),
                won |-> Won,
                changed |-> FALSE,
                calc |-> "none",
                ignored |-> "none"]
    /\ constraint_solvers' = <<>>
    /\ variable_solvers' = <<>>
    /\ game_over' = FALSE
    /\ UNCHANGED <<is_mine, n_adj_mines, n_mines, grid, clicked_count, n_flags,
                   lost, probs, mine_list, hashed>>

\* solve(starting_action), up to the first test of the outer loop: the click of
\* a cell (on_click_wrapper, on_right_click_wrapper) calls it. A call on a lost
\* game returns at once. hist records, for the call: whether the board was
\* untouched (first), whether the call before it had the same argument and
\* returned (repeat), ZeroClear (zero), Won at entry (won), whether a do of the
\* call changed the board (changed), how calc_prob ended (calc); and, for a
\* call on a lost game after it, what kind of call it was (ignored).
Solve(a) ==
    /\ pc = "idle"
    /\ IF lost
       THEN /\ hist' = [hist EXCEPT !.ignored =
                          IF ZeroClear(a) THEN "zero_clear" ELSE "other"]
            /\ UNCHANGED <<pc, actions, starting_action, last_do>>
       ELSE /\ pc' = "run"
            /\ actions' = <<a>>
            /\ starting_action' = a
            /\ last_do' = NoDo
            /\ hist' = [first |-> (grid = [c \in Coords |-> HIDDEN]),
                        repeat |-> (a = starting_action /\ hist.calc = "done"),
                        zero |-> ZeroClear(a),
                        won |-> Won,
                        changed |-> FALSE,
                        calc |-> "none",
                        ignored |-> "none"]
    /\ constraint_solvers' = <<>>
    /\ variable_solvers' = <<>>
    /\ game_over' = FALSE
    /\ UNCHANGED <<is_mine, n_adj_mines, n_mines, grid, clicked_count, n_flags,
                   lost, probs, mine_list, hashed>>

\* One iteration of `while actions`: pop the last action, do it, and queue the
\* solvers of its neighborhood. When do raises, solve is left with the exception
\* and the board stays as it is.
ApplyAction ==
    /\ pc = "run"
    /\ actions # <<>>
    /\ LET action == actions[Len(actions)]
           coord == action.coord
           r == do(action)
           clicked == NeighborsIn(r.grid, coord, CLICKED)
           hidden == NeighborsIn(r.grid, coord, HIDDEN)
       IN /\ grid' = r.grid
          /\ clicked_count' = r.clicked_count
          /\ n_flags' = r.n_flags
          /\ lost' = r.lost
          /\ last_do' = [action |-> action, prev |-> grid[coord], ret |-> r.ret]
          /\ IF r.raised
             THEN /\ pc' = "idle"
                  /\ actions' = <<>>
                  /\ constraint_solvers' = <<>>
                  /\ variable_solvers' = <<>>
                  /\ game_over' = FALSE
                  /\ hist' = [hist EXCEPT !.calc = "NotImplementedError"]
             ELSE /\ pc' = pc
                  /\ actions' = SubSeq(actions, 1, Len(actions) - 1)
                  /\ game_over' = (game_over \/ r.ret)
                  /\ constraint_solvers' =
                        IF action.type = CLEAR
                        THEN my_append_all(my_append(constraint_solvers, coord), clicked)
                        ELSE IF action.type = FLAG
                        THEN my_append_all(constraint_solvers, clicked)
                        ELSE constraint_solvers
                  /\ variable_solvers' =
                        IF action.type = CLEAR
                        THEN my_append_all(variable_solvers, hidden)
                        ELSE variable_solvers
                  /\ hist' = [hist EXCEPT !.changed =
                                 (hist.changed \/ <<r.grid, r.clicked_count, r.n_flags, r.lost>> # board)]
    /\ UNCHANGED <<is_mine, n_adj_mines, n_mines, probs, starting_action, mine_list, hashed>>

\* Variant of Dispatch without the break on game_over
Dispatch_without_break ==
    /\ pc = "run"
    /\ actions = <<>>
    /\ IF constraint_solvers # <<>>
       THEN /\ actions' = solve_constraint(grid, Head(constraint_solvers))
            /\ constraint_solvers' = Tail(constraint_solvers)
            /\ UNCHANGED variable_solvers
       ELSE IF variable_solvers # <<>>
       THEN /\ actions' \in solve_variable(grid, Head(variable_solvers))
            /\ variable_solvers' = Tail(variable_solvers)
            /\ UNCHANGED constraint_solvers
       ELSE UNCHANGED <<actions, constraint_solvers, variable_solvers>>
    /\ pc' = IF actions' = <<>> /\ constraint_solvers' = <<>>
                /\ variable_solvers' = <<>>
             THEN "calc_prob" ELSE "run"
    /\ game_over' = FALSE
    /\ UNCHANGED <<is_mine, n_adj_mines, n_mines, grid, clicked_count, n_flags, lost, probs,
                   starting_action, last_do, hist, mine_list, hashed>>

\* The rest of one iteration of the outer loop, once `actions` is empty: leave
\* on game_over, else pop one solver and collect its actions, then test the
\* loop condition
Dispatch ==
    /\ pc = "run"
    /\ actions = <<>>
    /\ IF game_over
       THEN /\ pc' = "calc_prob"
            /\ UNCHANGED <<actions, constraint_solvers, variable_solvers, game_over>>
       ELSE /\ IF constraint_solvers # <<>>
               THEN /\ actions' = solve_constraint(grid, Head(constraint_solvers))
                    /\ constraint_solvers' = Tail(constraint_solvers)
                    /\ UNCHANGED variable_solvers
               ELSE IF variable_solvers # <<>>
               THEN /\ actions' \in solve_variable(grid, Head(variable_solvers))
                    /\ variable_solvers' = Tail(variable_solvers)
                    /\ UNCHANGED constraint_solvers
               ELSE UNCHANGED <<actions, constraint_solvers, variable_solvers>>
            /\ pc' = IF actions' = <<>> /\ constraint_solvers' = <<>>
                        /\ variable_solvers' = <<>>
                     THEN "calc_prob" ELSE "run"
            /\ game_over' = FALSE
    /\ UNCHANGED <<is_mine, n_adj_mines, n_mines, grid, clicked_count, n_flags, lost, probs,
                   starting_action, last_do, hist, mine_list, hashed>>

\* calc_prob() at the end of solve, and the return of solve. random.sample
\* raises ValueError when asked for more cells than are HIDDEN; the loop never
\* ends when no draw can be accepted (pc stays "hung"); else the N_SIMS accepted
\* draws set the probability of every cell of all_variables. The values written
\* to probs are kept only when they are followed.
CalcProb(followed) ==
    /\ pc = "calc_prob"
    /\ IF n_mines - n_flags > Cardinality(all_hidden(grid))
       THEN /\ pc' = "idle"
            /\ hist' = [hist EXCEPT !.calc = "raised"]
            /\ UNCHANGED probs
       ELSE IF accepted_samples(grid) = {}
       THEN /\ pc' = "hung"
            /\ hist' = [hist EXCEPT !.calc = "hung"]
            /\ UNCHANGED probs
       ELSE /\ \E sample \in draws(followed, grid) :
                  probs' = IF followed THEN calc_prob(grid, probs, sample)
                           ELSE probs
            /\ pc' = "idle"
            /\ hist' = [hist EXCEPT !.calc = "done"]
    /\ actions' = <<>>
    /\ constraint_solvers' = <<>>
    /\ variable_solvers' = <<>>
    /\ game_over' = FALSE
    /\ UNCHANGED <<is_mine, n_adj_mines, n_mines, grid, clicked_count, n_flags, lost,
                   starting_action, last_do, mine_list, hashed>>

\* The complete game, under any random source
Next ==
    \/ \E t \in ActionType, c \in Coords : Solve(Action(t, c, "user"))
    \/ ApplyAction
    \/ Dispatch
    \/ CalcProb(TRUE)

Spec == Init /\ [][Next]_vars

\* The game without the values of probs: calc_prob is called, and returns,
\* raises or hangs as in Spec, but what it writes to probs is not followed. No
\* statement of solve, do or the solvers reads probs, so the cell states, the
\* counters, lost and the work lists change under SpecBoard as under Spec.
NextBoard ==
    \/ \E t \in ActionType, c \in Coords : Solve(Action(t, c, "user"))
    \/ ApplyAction
    \/ Dispatch
    \/ CalcProb(FALSE)

SpecBoard == InitBoard /\ [][NextBoard]_vars

\* The same on the boards that hold a mine without a safe neighbor
SpecBlock == InitBlock /\ [][NextBoard]_vars

\* ------------------------------------- minesweeper_lib: a board from a list

\* N_MINES of minesweeper_lib.py (99 in the source, scaled down)
N_MINES == 2
\* The lists of mine coordinates given to Minesweeper have at most MaxListLen
\* elements, each on the board or one step past its far edges
MaxListLen == 3

InputCoords == (0 .. SIZE_X) \X (0 .. SIZE_Y)

MineLists == UNION {[1 .. n -> InputCoords] : n \in 0 .. MaxListLen}

\* Before Minesweeper(display, mines) of minesweeper_lib.py is called with the
\* list m: there is no board yet
InitLib ==
    /\ \E m \in MineLists : mine_list = m
    /\ pc = "new"
    /\ is_mine = [c \in Coords |-> FALSE]
    /\ n_mines = 0
    /\ n_adj_mines = [c \in Coords |-> 0]
    /\ grid = [c \in Coords |-> HIDDEN]
    /\ clicked_count = 0
    /\ n_flags = 0
    /\ lost = FALSE
    /\ probs = [c \in Coords |-> None]
    /\ actions = <<>>
    /\ constraint_solvers = <<>>
    /\ variable_solvers = <<>>
    /\ game_over = FALSE
    /\ starting_action = NoAction
    /\ last_do = NoDo
    /\ hist = NoHist
    /\ hashed = NoKeys

\* Minesweeper.__init__(display, mines) of minesweeper_lib.py: n_mines is
\* N_MINES whatever the list holds; `self.grid[coord]` raises KeyError for the
\* first coordinate that is not on the board, and then no board is built; else
\* the cells of the list are the mines.
Minesweeper_init ==
    /\ pc = "new"
    /\ IF \E i \in 1 .. Len(mine_list) : mine_list[i] \notin Coords
       THEN /\ pc' = "KeyError"
            /\ UNCHANGED <<is_mine, n_adj_mines, n_mines>>
       ELSE LET m == [c \in Coords |-> c \in SeqToSet(mine_list)]
            IN /\ pc' = "idle"
               /\ is_mine' = m
               /\ n_mines' = N_MINES
               /\ n_adj_mines' = [c \in Coords |-> count_adjacent_mines(m, c)]
    /\ UNCHANGED <<grid, clicked_count, n_flags, lost, probs, actions,
                   constraint_solvers, variable_solvers, game_over,
                   starting_action, last_do, hist, mine_list, hashed>>

NextLib == Minesweeper_init

\* --------------------------------------------- data_lib.py: the keys

\* Bitwise exclusive or of two naturals (the operator ^ of the language)
RECURSIVE Xor(_, _)
Xor(a, b) ==
    IF a = 0 THEN b
    ELSE IF b = 0 THEN a
    ELSE ((a + b) % 2) + 2 * Xor(a \div 2, b \div 2)

\* hash(x) of a small natural is x
hash(x) == x

\* mini_hash(x) of coord_hash: `hash(x) % 2^16`, in which % binds tighter than
\* ^, the exclusive or
mini_hash(x) == Xor(hash(x) % 2, 16)

\* coord_hash(coord)
coord_hash(coord) == mini_hash(coord[1]) * 2^16 + mini_hash(coord[2])

\* grid_coords(): itertools.product(range(SIZE_X), range(SIZE_Y)), in order
grid_coords ==
    [i \in 1 .. SIZE_X * SIZE_Y |-> <<(i - 1) \div SIZE_Y, (i - 1) % SIZE_Y>>]

\* position_hash(ms) on the cell states g. The result is written <<hi, lo>>
\* for the number hi * 2^32 + lo: coord_hash is below 2^32, so the CLICKED cells
\* only reach hi and the FLAGGED cells only reach lo.
position_hash(g) ==
    LET RECURSIVE result(_)
        result(i) ==
            IF i = 0 THEN <<0, 0>>
            ELSE LET r == result(i - 1)
                     coord == grid_coords[i]
                 IN <<IF g[coord] = CLICKED THEN Xor(r[1], coord_hash(coord))
                      ELSE r[1],
                      IF g[coord] = FLAGGED THEN Xor(r[2], coord_hash(coord))
                      ELSE r[2]>>
    IN result(Len(grid_coords))

\* The positions keyed have at most MaxSettled cells that are CLICKED or FLAGGED
MaxSettled == 2

Positions ==
    {g \in [Coords -> {HIDDEN, CLICKED, FLAGGED}] :
        Cardinality({c \in Coords : g[c] # HIDDEN}) <= MaxSettled}

\* Two positions of one board, before their keys are computed
InitHash ==
    /\ pc = "position"
    /\ grid \in Positions
    /\ \E g \in Positions : hashed = [NoKeys EXCEPT !.other = g]
    /\ is_mine = [c \in Coords |-> FALSE]
    /\ n_mines = 0
    /\ n_adj_mines = [c \in Coords |-> 0]
    /\ clicked_count = Cardinality({c \in Coords : grid[c] = CLICKED})
    /\ n_flags = Cardinality({c \in Coords : grid[c] = FLAGGED})
    /\ lost = FALSE
    /\ probs = [c \in Coords |-> None]
    /\ actions = <<>>
    /\ constraint_solvers = <<>>
    /\ variable_solvers = <<>>
    /\ game_over = FALSE
    /\ starting_action = NoAction
    /\ last_do = NoDo
    /\ hist = NoHist
    /\ mine_list = <<>>

\* coord_hash of every cell and position_hash of both positions
Position_hash ==
    /\ pc = "position"
    /\ pc' = "hashed"
    /\ hashed' = [hashed EXCEPT !.coord = [c \in Coords |-> coord_hash(c)],
                                !.key = position_hash(grid),
                                !.other_key = position_hash(hashed.other)]
    /\ UNCHANGED <<is_mine, n_adj_mines, n_mines, grid, clicked_count, n_flags,
                   lost, probs, actions, constraint_solvers, variable_solvers,
                   game_over, starting_action, last_do, hist, mine_list>>

NextHash == Position_hash

SpecHash == InitHash /\ [][NextHash]_vars

\* ------------------------------ solve called with an action of any type

\* solve(action) with any member of ActionType, UNKNOWN too, on the board of
\* Spec; the values of probs are not followed
NextAny ==
    \/ \E t \in ActionType \cup {UNKNOWN}, c \in Coords : Solve(Action(t, c, "user"))
    \/ ApplyAction
    \/ Dispatch
    \/ CalcProb(FALSE)

SpecAny == Init /\ [][NextAny]_vars

SpecLib == InitLib /\ [][NextLib]_vars

TypeOK ==
    /\ grid \in [Coords -> State]
    /\ n_adj_mines \in [Coords -> 0 .. 8]
    /\ clicked_count \in 0 .. SIZE_X * SIZE_Y
    /\ n_flags \in 0 .. SIZE_X * SIZE_Y
    /\ lost \in BOOLEAN
    /\ pc \in {"idle", "run", "calc_prob", "hung", "new", "KeyError",
             "position", "hashed"}
    /\ \A c \in Coords : probs[c] = None \/ probs[c] \in 0 .. 100

\* ------------------------------------------------------------ the claims

\* The action about to be popped by ApplyAction
Top == actions[Len(actions)]

\* An action agrees with ground truth: CLEAR of a non-mine, FLAG of a mine
AgreesWithTruth(a) ==
    /\ a.type = CLEAR => ~ is_mine[a.coord]
    /\ a.type = FLAG => is_mine[a.coord]

\* C1: every action emitted by solve_constraint or by solve_variable /
\* solve_pair_of_constraints agrees with ground truth (CLEAR of a non-mine,
\* FLAG of a mine), so only the user's starting action makes do return True:
\* the only MISCLICKED cell is the target of the starting action.
C1_EngineAgreesWithTruth ==
    /\ \A i \in 1 .. Len(actions) :
          actions[i].by # "user" => AgreesWithTruth(actions[i])
    /\ last_do.action.by \in {"constraint", "variable"} =>
          AgreesWithTruth(last_do.action) /\ ~ last_do.ret
    /\ \A c \in Coords : grid[c] = MISCLICKED => c = starting_action.coord
    /\ lost => grid[starting_action.coord] = MISCLICKED

\* C1 witness: a FLAG emitted by solve_variable has been applied to a HIDDEN
\* cell while a CLEAR emitted by the engine is still pending
C1_Witness ==
    /\ last_do.action.by = "variable"
    /\ last_do.action.type = FLAG
    /\ last_do.prev = HIDDEN
    /\ grid[last_do.action.coord] = FLAGGED
    /\ \E i \in 1 .. Len(actions) : actions[i].type = CLEAR

\* C2: do on a HIDDEN cell: CLEAR of a mine and FLAG of a non-mine set the cell
\* MISCLICKED, set lost and return True; CLEAR of a non-mine sets it CLICKED,
\* adds 1 to clicked_count and returns False; FLAG of a mine sets it FLAGGED,
\* adds 1 to n_flags and returns False; nothing else changes.
C2_DoOnHidden ==
    [][(pc = "run" /\ actions # <<>> /\ grid[Top.coord] = HIDDEN) =>
         LET c == Top.coord
             wrong == (Top.type = CLEAR) = is_mine[c]
         IN /\ \A d \in Coords \ {c} : grid'[d] = grid[d]
            /\ last_do'.action = Top
            /\ last_do'.ret = wrong
            /\ IF wrong
               THEN /\ grid'[c] = MISCLICKED
                    /\ lost'
                    /\ clicked_count' = clicked_count
                    /\ n_flags' = n_flags
               ELSE /\ lost' = lost
                    /\ IF Top.type = CLEAR
                       THEN /\ grid'[c] = CLICKED
                            /\ clicked_count' = clicked_count + 1
                            /\ n_flags' = n_flags
                       ELSE /\ grid'[c] = FLAGGED
                            /\ n_flags' = n_flags + 1
                            /\ clicked_count' = clicked_count]_vars

\* C2 witness: a FLAG has been done on a HIDDEN mine, and a CLEAR of a HIDDEN
\* non-mine before it in the same game
C2_Witness ==
    /\ last_do.action.type = FLAG
    /\ last_do.prev = HIDDEN
    /\ ~ last_do.ret
    /\ n_flags >= 1
    /\ clicked_count >= 1

\* C3: do of a CLEAR or FLAG whose target is already CLICKED or FLAGGED returns
\* False and leaves every cell state, clicked_count, n_flags and lost unchanged.
C3_DoOnSettled ==
    [][(pc = "run" /\ actions # <<>> /\ grid[Top.coord] \in {CLICKED, FLAGGED}) =>
         /\ last_do'.action = Top
         /\ ~ last_do'.ret
         /\ UNCHANGED board]_vars

\* C3 witness: do has been called on a FLAGGED cell
C3_Witness ==
    /\ last_do.action.type \in {CLEAR, FLAG}
    /\ last_do.prev = FLAGGED
    /\ grid[last_do.action.coord] = FLAGGED

\* C4: solve(a) called again right after solve(a) has returned changes no cell
\* state, counter or lost: no do of the second call changes the board.
C4_Idempotent == hist.repeat => ~ hist.changed

\* C4 witness: the second of two calls with the same CLEAR has returned, the
\* target is CLICKED and other cells are still HIDDEN
C4_Witness ==
    /\ hist.repeat
    /\ pc = "idle"
    /\ hist.calc = "done"
    /\ starting_action.type = CLEAR
    /\ grid[starting_action.coord] = CLICKED
    /\ \E c \in Coords : grid[c] = HIDDEN /\ ~ is_mine[c]

\* C5: once lost is true it stays true, and a call of solve on a lost game
\* returns at once (solve is idle again, no do and no calc_prob is run) and
\* changes no cell state, clicked_count, n_flags or probs.
C5_LostIsTerminal ==
    [][/\ lost => lost'
       /\ (lost /\ pc = "idle") =>
             /\ pc' = "idle"
             /\ UNCHANGED <<grid, clicked_count, n_flags, probs>>]_vars

\* C5 witness: solve has been called on a lost game in which calc_prob had
\* given probabilities and cells are still HIDDEN
C5_Witness ==
    /\ lost
    /\ pc = "idle"
    /\ hist.ignored # "none"
    /\ \E c \in Coords : probs[c] # None
    /\ \E c \in Coords : grid[c] = HIDDEN

\* C6: once every non-mine cell is CLICKED, a later call of solve changes no
\* cell and leaves lost false.
C6_WonIsTerminal == hist.won => (~ hist.changed /\ ~ lost)

\* C7: calc_prob never loops without end: its loop is left when no draw can be
\* accepted.
C7_CalcProbLoopEnds == pc # "hung"

\* C8: calc_prob is invoked at the end of solve only when the game is neither
\* lost nor won.
C8_EstimatorOnlyWhilePlaying == pc = "calc_prob" => (~ lost /\ ~ Won)

\* The 8-connected region of cells without adjacent mine that holds c, and the
\* neighbors of its cells
RECURSIVE ZeroRegion(_)
ZeroRegion(region) ==
    LET more == {n \in Coords \ region :
                   /\ n_adj_mines[n] = 0
                   /\ \E d \in region : n \in SeqToSet(get_neighbors(d))}
    IN IF more = {} THEN region ELSE ZeroRegion(region \cup more)

RegionAndBorder(c) ==
    ZeroRegion({c}) \cup
    UNION {SeqToSet(get_neighbors(d)) : d \in ZeroRegion({c})}

\* What C9 promises of the board after solve(CLEAR c)
Flooded(c) ==
    /\ \A d \in RegionAndBorder(c) : grid[d] = CLICKED
    /\ \A d \in Coords : grid[d] # MISCLICKED
    /\ ~ lost

\* C9 as stated: after any call solve(CLEAR c) on a HIDDEN non-mine cell c
\* without adjacent mine, also a call on a lost game, the region of c and its
\* border are CLICKED, no cell is MISCLICKED and lost is false.
C9_FloodAfterAnyCall ==
    /\ (hist.zero /\ pc = "idle") => Flooded(starting_action.coord)
    /\ hist.ignored = "zero_clear" =>
          (~ lost /\ \A d \in Coords : grid[d] # MISCLICKED)

\* C9 amended: after solve(CLEAR c), called on a game that is not lost, on a
\* HIDDEN non-mine cell c without adjacent mine, solve returns and the region of
\* c and its border are CLICKED, no cell is MISCLICKED and lost is false.
C9_FloodWhilePlaying ==
    hist.zero =>
        /\ pc \in {"calc_prob", "idle"} => Flooded(starting_action.coord)
        /\ hist.calc \in {"none", "done"}
        /\ pc # "hung"

\* C9 witness: such a call has returned, on a board where the region of c is
\* more than c, and its cells and their neighbors are CLICKED
C9_Witness ==
    /\ hist.zero
    /\ pc = "idle"
    /\ hist.calc = "done"
    /\ Cardinality(ZeroRegion({starting_action.coord})) > 1
    /\ \A d \in RegionAndBorder(starting_action.coord) : grid[d] = CLICKED

\* The end-to-end scenario: the 3x3 board with one mine at (2,2), and the
\* first call of solve, solve(CLEAR (0,0)), has returned
EndToEndDone ==
    /\ SIZE_X = 3
    /\ SIZE_Y = 3
    /\ is_mine = [c \in Coords |-> c = <<2, 2>>]
    /\ hist.first
    /\ starting_action = Action(CLEAR, <<0, 0>>, "user")
    /\ pc = "idle"

EightClicked ==
    /\ \A c \in Coords \ {<<2, 2>>} : grid[c] = CLICKED
    /\ clicked_count = 8
    /\ Won
    /\ ~ lost

\* C10 as stated: after the scenario the 8 non-mine cells are CLICKED,
\* clicked_count is 8, the win condition holds, lost is false and (2,2) is
\* still HIDDEN.
C10_EndToEndHidden == EndToEndDone => (EightClicked /\ grid[<<2, 2>>] = HIDDEN)

\* C10 amended: ... and (2,2) is FLAGGED with n_flags = 1 (solve_constraint on
\* (1,1), whose only HIDDEN neighbor it is, flags it).
C10_EndToEndFlagged ==
    EndToEndDone =>
        /\ EightClicked
        /\ grid[<<2, 2>>] = FLAGGED
        /\ n_flags = 1
        /\ hist.calc = "done"

\* C10 witness: the scenario has been played
C10_Witness == EndToEndDone /\ hist.calc = "done" /\ clicked_count = 8

\* The places of a 1-2-1 pattern: three cells in a row (the clues) and the
\* three cells of the row next to it (hid), all on the board
Places ==
    LET place(a, d, e) ==
            [clues |-> [i \in 1 .. 3 |-> <<a[1] + (i - 1) * d[1],
                                           a[2] + (i - 1) * d[2]>>],
             hid |-> [i \in 1 .. 3 |-> <<a[1] + (i - 1) * d[1] + e * d[2],
                                         a[2] + (i - 1) * d[2] + e * d[1]>>]]
        all == {place(a, d, e) : a \in Coords, d \in {<<0, 1>>, <<1, 0>>},
                                 e \in {-1, 1}}
    IN {p \in all : \A i \in 1 .. 3 : p.clues[i] \in Coords /\ p.hid[i] \in Coords}

\* The board holds the 1-2-1 pattern at place p: the clues are CLICKED and show
\* 1, 2, 1, their only HIDDEN neighbors are the three cells of hid, the mines
\* are under the two outer ones, and the game is not lost
Pattern121(p) ==
    /\ ~ lost
    /\ \A i \in 1 .. 3 :
          /\ grid[p.clues[i]] = CLICKED
          /\ grid[p.hid[i]] = HIDDEN
          /\ SeqToSet(NeighborsIn(grid, p.clues[i], HIDDEN))
                \subseteq {p.hid[1], p.hid[2], p.hid[3]}
    /\ n_adj_mines[p.clues[1]] = 1
    /\ n_adj_mines[p.clues[2]] = 2
    /\ n_adj_mines[p.clues[3]] = 1
    /\ is_mine[p.hid[1]]
    /\ ~ is_mine[p.hid[2]]
    /\ is_mine[p.hid[3]]

\* C11: on a board holding the 1-2-1 pattern solve_constraint returns no action
\* for any of the three clues; the pattern is only seen inside the solve that
\* completes it, and the step that ends it is the do, on a HIDDEN cell, of an
\* action built by solve_variable / solve_pair_of_constraints.
C11_PairRuleOn121 ==
    [][\A p \in Places : Pattern121(p) =>
          /\ \A i \in 1 .. 3 : solve_constraint(grid, p.clues[i]) = <<>>
          /\ pc = "run"
          /\ (~ Pattern121(p)') =>
                /\ actions # <<>>
                /\ Top.by = "variable"
                /\ last_do' = [action |-> Top, prev |-> HIDDEN, ret |-> FALSE]
                /\ grid'[Top.coord] \in {CLICKED, FLAGGED}]_vars

\* C11 witness: the first action of solve_variable has just been done on a cell
\* of a pattern whose two other hidden cells are still HIDDEN
C11_Witness ==
    /\ pc = "run"
    /\ last_do.action.by = "variable"
    /\ last_do.prev = HIDDEN
    /\ ~ last_do.ret
    /\ \E p \in Places :
          /\ \A i \in 1 .. 3 : grid[p.clues[i]] = CLICKED
          /\ n_adj_mines[p.clues[2]] = 2
          /\ is_mine[p.hid[1]] /\ is_mine[p.hid[3]]
          /\ last_do.action.coord \in {p.hid[1], p.hid[2], p.hid[3]}
          /\ Cardinality({i \in 1 .. 3 : grid[p.hid[i]] = HIDDEN}) = 2

\* ------------------------------------------------- one solve as a function

\* The state of a running solve: the board and the locals of solve
Running ==
    [grid |-> grid, clicked_count |-> clicked_count, n_flags |-> n_flags,
     lost |-> lost, actions |-> actions, constraint_solvers |-> constraint_solvers,
     variable_solvers |-> variable_solvers, game_over |-> game_over]

\* do(action) on the board of st
do_in(st, action) ==
    LET misclick == [st EXCEPT !.grid[action.coord] = MISCLICKED,
                               !.lost = TRUE, !.game_over = TRUE]
    IN IF st.grid[action.coord] \in {CLICKED, FLAGGED} THEN st
       ELSE IF action.type = CLEAR
            THEN IF is_mine[action.coord] THEN misclick
                 ELSE [st EXCEPT !.grid[action.coord] = CLICKED,
                                 !.clicked_count = st.clicked_count + 1]
            ELSE IF ~ is_mine[action.coord] THEN misclick
                 ELSE [st EXCEPT !.grid[action.coord] = FLAGGED,
                                 !.n_flags = st.n_flags + 1]

\* One iteration of `while actions` on st
apply_in(st) ==
    LET action == st.actions[Len(st.actions)]
        coord == action.coord
        r == do_in(st, action)
        clicked == NeighborsIn(r.grid, coord, CLICKED)
        hidden == NeighborsIn(r.grid, coord, HIDDEN)
    IN [r EXCEPT
          !.actions = SubSeq(st.actions, 1, Len(st.actions) - 1),
          !.constraint_solvers =
              IF action.type = CLEAR
              THEN my_append_all(my_append(st.constraint_solvers, coord), clicked)
              ELSE my_append_all(st.constraint_solvers, clicked),
          !.variable_solvers =
              IF action.type = CLEAR
              THEN my_append_all(st.variable_solvers, hidden)
              ELSE st.variable_solvers]

\* The board of st
board_of(st) == <<st.grid, st.clicked_count, st.n_flags, st.lost>>

\* The boards the propagation loop of solve can end with when it runs on from
\* st, one for each way the solvers can enumerate their sets
RECURSIVE Outcomes(_)
Outcomes(st) ==
    IF st.actions # <<>> THEN Outcomes(apply_in(st))
    ELSE IF st.game_over THEN {board_of(st)}
    ELSE IF st.constraint_solvers # <<>>
    THEN Outcomes([st EXCEPT
            !.actions = solve_constraint(st.grid, Head(st.constraint_solvers)),
            !.constraint_solvers = Tail(st.constraint_solvers)])
    ELSE IF st.variable_solvers # <<>>
    THEN UNION {Outcomes([st EXCEPT !.actions = acts,
                                   !.variable_solvers = Tail(st.variable_solvers)]) :
                  acts \in solve_variable(st.grid, Head(st.variable_solvers))}
    ELSE {board_of(st)}

\* solve has just been entered: nothing has been done yet
Entered ==
    /\ pc = "run"
    /\ actions = <<starting_action>>
    /\ constraint_solvers = <<>>
    /\ variable_solvers = <<>>
    /\ last_do = NoDo

\* C12: from the same mine placement and the same actions every run ends with
\* the same cell states, clicked_count, n_flags and lost: at the entry of each
\* solve, the loop can end with one board only, whatever the order in which
\* solve_pair_of_constraints enumerates its set (calc_prob writes probs only).
C12_Deterministic == Entered => Cardinality(Outcomes(Running)) = 1

\* C12 witness: solve is about to run solve_variable on a cell for which the
\* order of the set decides between several lists of actions
C12_Witness ==
    /\ pc = "run"
    /\ actions = <<>>
    /\ ~ game_over
    /\ constraint_solvers = <<>>
    /\ variable_solvers # <<>>
    /\ Cardinality(solve_variable(grid, Head(variable_solvers))) > 1
    /\ Cardinality(Outcomes(Running)) = 1

\* C13: after every solve the probability map holds a value only for cells
\* that are HIDDEN, and each value is an integer of 0 .. 100: no value of an
\* earlier solve is left for a cell that is CLICKED, FLAGGED or MISCLICKED.
C13_ProbsOnlyForHidden ==
    pc = "idle" =>
        \A c \in Coords : probs[c] # None =>
            (grid[c] = HIDDEN /\ probs[c] \in 0 .. 100)

\* A board has been built
Built == pc \notin {"new", "KeyError"}

\* C14: Minesweeper(display, mines) of minesweeper_lib.py fails with
\* InvalidLayoutError, and builds no board, whenever the list does not hold
\* N_MINES coordinates or holds a coordinate that is not on the board.
C14_BadLayoutRejected ==
    (/\ pc # "new"
     /\ \/ Len(mine_list) # N_MINES
        \/ \E i \in 1 .. Len(mine_list) : mine_list[i] \notin Coords)
    => pc = "InvalidLayoutError"

\* C15: on every board that has been built, by restart or from a list of
\* mines, and in every state reached from it, n_mines is the number of cells
\* with is_mine set.
C15_MineCountIsNMines == Built => n_mines = MineCount(is_mine)

\* C16: the only changes of a cell state are HIDDEN to CLICKED, HIDDEN to
\* FLAGGED and HIDDEN to MISCLICKED: a cell that has left HIDDEN never changes
\* again.
C16_CellStatesMonotonic ==
    [][\A c \in Coords : grid'[c] # grid[c] =>
          (grid[c] = HIDDEN /\ grid'[c] \in {CLICKED, FLAGGED, MISCLICKED})]_vars

\* C16 witness: do has been called on a cell that was not HIDDEN, on a board
\* with CLICKED, FLAGGED and HIDDEN cells
C16_Witness ==
    /\ last_do.prev # HIDDEN
    /\ last_do.action.type = FLAG
    /\ \E c \in Coords : grid[c] = CLICKED
    /\ \E c \in Coords : grid[c] = FLAGGED
    /\ \E c \in Coords : grid[c] = HIDDEN

\* C17: do raises for an action whose type is neither CLEAR nor FLAG, whatever
\* the state of the target cell, and leaves the board unchanged.
C17_UnknownActionRaises ==
    [][(pc = "run" /\ actions # <<>> /\ Top.type = UNKNOWN) =>
          (hist'.calc = "NotImplementedError" /\ UNCHANGED board)]_vars

\* The number of HIDDEN cells, twice, less 1 when the action about to be done
\* has a HIDDEN target; the pending actions; the queued solvers
Rank ==
    <<2 * Cardinality(all_hidden(grid))
        - (IF actions # <<>> /\ grid[Top.coord] = HIDDEN THEN 1 ELSE 0),
      Len(actions),
      Len(constraint_solvers) + Len(variable_solvers)>>

\* Lexicographic order on triples of naturals
LexLess(a, b) ==
    \/ a[1] < b[1]
    \/ a[1] = b[1] /\ a[2] < b[2]
    \/ a[1] = b[1] /\ a[2] = b[2] /\ a[3] < b[3]

\* C18: the propagation loop of solve terminates: every step of the loop either
\* leaves the loop or makes Rank, a triple of naturals, smaller in the
\* lexicographic order; and when the loop ends without an explosion the list of
\* pending actions and both queues are empty.
C18_LoopTerminates ==
    [][pc = "run" =>
         IF pc' = "run"
         THEN LexLess(Rank', Rank)
         ELSE /\ pc' = "calc_prob"
              /\ ~ game_over' =>
                    /\ actions' = <<>>
                    /\ constraint_solvers' = <<>>
                    /\ variable_solvers' = <<>>]_vars

\* C18 witness: the loop has ended without explosion after both kinds of solver
\* have built actions that changed the board
C18_Witness ==
    /\ pc = "calc_prob"
    /\ ~ game_over
    /\ ~ lost
    /\ actions = <<>> /\ constraint_solvers = <<>> /\ variable_solvers = <<>>
    /\ last_do.action.by \in {"constraint", "variable"}
    /\ n_flags >= 1
    /\ clicked_count >= 3

\* C19: when the loop of solve has ended and the game is not lost, the engine
\* deduces nothing more: solve_constraint returns no action for any CLICKED
\* cell, and solve_pair_of_constraints returns no action for any two CLICKED
\* neighbors of a common HIDDEN cell.
C19_FixedPointAfterSolve ==
    (pc = "calc_prob" /\ ~ lost) =>
        /\ \A c \in Coords :
              grid[c] = CLICKED => solve_constraint(grid, c) = <<>>
        /\ \A h \in Coords :
              grid[h] = HIDDEN =>
                \A x, y \in SeqToSet(NeighborsIn(grid, h, CLICKED)) :
                    x # y => solve_pair_of_constraints(grid, x, y) = {<<>>}

\* C20: once a do of solve has returned True, no pending action is left to
\* apply and the next step of solve leaves the loop without running a solver;
\* from then on until solve returns no cell changes, so the exploded cell is
\* the last cell whose state changed.
C20_ExplosionEndsLoop ==
    [][(pc \in {"run", "calc_prob"} /\ game_over) =>
          /\ actions = <<>>
          /\ last_do.ret
          /\ grid[last_do.action.coord] = MISCLICKED
          /\ pc = "run" =>
                /\ pc' = "calc_prob"
                /\ UNCHANGED <<actions, constraint_solvers, variable_solvers>>
          /\ UNCHANGED <<grid, clicked_count, n_flags, lost, last_do>>]_vars

\* C20 witness: solve has left its loop after an explosion in the middle of a
\* game, with solvers still queued
C20_Witness ==
    /\ pc = "calc_prob"
    /\ game_over
    /\ last_do.ret
    /\ clicked_count >= 2
    /\ Len(constraint_solvers) >= 2

\* C21: every coordinate that solve passes to solve_constraint is CLICKED when
\* it is passed: the solver popped next, at the point where solve pops it, is
\* the solver of a CLICKED cell.
C21_ConstraintsFromClicked ==
    (pc = "run" /\ actions = <<>> /\ ~ game_over /\ constraint_solvers # <<>>) =>
        grid[Head(constraint_solvers)] = CLICKED

\* C22: in every state n_flags is the number of FLAGGED cells and
\* clicked_count is the number of CLICKED cells.
C22_CountersMatchCells ==
    /\ n_flags = Cardinality({c \in Coords : grid[c] = FLAGGED})
    /\ clicked_count = Cardinality({c \in Coords : grid[c] = CLICKED})

\* C22 witness: the engine's action on a cell that an earlier action of the
\* same solve has settled has just been done, on a board with flags and clicks
C22_Witness ==
    /\ pc = "run"
    /\ last_do.action.by \in {"constraint", "variable"}
    /\ last_do.prev \in {CLICKED, FLAGGED}
    /\ n_flags >= 1
    /\ clicked_count >= 2

\* C23: whenever calc_prob is called at the end of a solve there are at least
\* n_mines - n_flags HIDDEN cells, and some choice of that many HIDDEN cells
\* meets every constraint, so that a draw can be accepted.
C23_AcceptedSampleExists ==
    pc = "calc_prob" =>
        /\ Cardinality(all_hidden(grid)) >= n_mines - n_flags
        /\ accepted_samples(grid) # {}

\* The pairs solve_variable passes to solve_pair_of_constraints when solve
\* pops the next variable solver
NextPairs ==
    IF pc = "run" /\ actions = <<>> /\ ~ game_over
       /\ constraint_solvers = <<>> /\ variable_solvers # <<>>
    THEN SeqToSet(combinations2(NeighborsIn(grid, Head(variable_solvers), CLICKED)))
    ELSE {}

\* The hypotheses solve_pair_of_constraints finds valid for the pair p
ValidOf(p) ==
    LET cx == get_variables_constraint(grid, p[1])
        cy == get_variables_constraint(grid, p[2])
    IN valid_hypotheses(cx.variables, cx.constraint, cy.variables, cy.constraint)

\* C24: in every call of solve_pair_of_constraints that solve makes, some
\* hypothesis meets both counts, and no list it can return holds a FLAG and a
\* CLEAR of the same coordinate.
C24_SomeHypothesisValid ==
    \A p \in NextPairs :
        /\ ValidOf(p) # {}
        /\ \A r \in solve_pair_of_constraints(grid, p[1], p[2]) :
              \A i, j \in 1 .. Len(r) :
                  r[i].coord = r[j].coord => r[i].type = r[j].type

\* C24 witness: solve is about to call solve_pair_of_constraints on a pair
\* with more than one valid hypothesis and a forced cell
C24_Witness ==
    \E p \in NextPairs :
        /\ Cardinality(ValidOf(p)) >= 2
        /\ solve_pair_of_constraints(grid, p[1], p[2]) # {<<>>}

\* The cells of the second position in state st
OtherIn(st) == {c \in Coords : hashed.other[c] = st}

\* The cells of the first position in state st
HereIn(st) == {c \in Coords : grid[c] = st}

\* Two sets differ in exactly one coordinate
DifferInOne(A, B) == Cardinality((A \ B) \cup (B \ A)) = 1

\* C25: coord_hash packs x modulo 2^16 into the upper and y modulo 2^16 into
\* the lower 16 bits of its value, so it maps distinct coordinates of the grid
\* to distinct numbers, and two positions whose CLICKED sets, or whose FLAGGED
\* sets, differ in exactly one coordinate get different keys.
C25_CoordHashInjective ==
    pc = "hashed" =>
        /\ \A c \in Coords :
              hashed.coord[c] = (c[1] % 2^16) * 2^16 + (c[2] % 2^16)
        /\ \A c, d \in Coords : c # d => hashed.coord[c] # hashed.coord[d]
        /\ (\/ DifferInOne(HereIn(CLICKED), OtherIn(CLICKED))
            \/ DifferInOne(HereIn(FLAGGED), OtherIn(FLAGGED)))
              => hashed.key # hashed.other_key

====
